---- MODULE Spec2Model ----
(***************************************************************************)
(* Model of the math-ai query engine: the session store of                 *)
(* MathExpertWithMemory (src/src/agent.py), the two guardrail functions    *)
(* (src/src/utils/guardrails.py) and handle_math_query_with_memory, the    *)
(* request pipeline built around one Runner.run call.                      *)
(*                                                                         *)
(* Texts are sequences of string tokens, so that an f-string that embeds   *)
(* other texts is a longer sequence holding them and never equal to one of *)
(* its parts by construction.                                              *)
(*                                                                         *)
(* Runner.run is the agents SDK's: the input guardrails of the agent run   *)
(* as a task concurrent with the first model turn (tool calls of that turn *)
(* included), a tripwire raises out of Runner.run, and the output          *)
(* guardrails run on the final output.  uuid4 is a source of fresh names.  *)
(***************************************************************************)
EXTENDS Integers, Sequences, FiniteSets, TLC

\* ------------------------------------------------------------------ bounds
\* number of uuid4 draws for session ids
MaxSessions == 2
\* number of get_or_create_session calls (also the range of the clock)
MaxCalls == 3
\* number of exchanges appended to known sessions
MaxAppends == 4
\* number of handle_math_query_with_memory calls
MaxQueries == 3

\* ------------------------------------------------------- program constants
\* agent.py:129-130, "Keep only last 3 exchanges"
HISTORY_LIMIT == 3

\* the absent session id (Optional[str] = None) and the ids a caller may
\* supply that uuid4 never returns
None == "None"
ForeignIds == {"", "typo"}

Queries == {<<"integral">>, <<"pizza">>}
Responses == {<<"answer">>}
Tags == {"1a2b3c4d"}
UserIds == {"default_user"}

VARIABLES
    sessions,      \* self.sessions: session id -> session record
    uuid_count,    \* number of session ids drawn from uuid4 so far
    now,           \* datetime.now(), a clock that ticks at each resolution
    appended,      \* history variable: <<session id, exchange>> in append order
    last_call,     \* history variable: the store operation of the last step
    issued,        \* history variable: the session ids returned to callers
    pc,            \* per request: "idle", "run" (awaiting Runner.run) or "done"
    call,          \* per request: the arguments of handle_math_query_with_memory
    frame,         \* per request: the locals set before the await
    run,           \* per request: the state of the Runner.run call
    result,        \* per request: the dict returned to the caller
    rag,           \* the activation of the rag_search tool
    web            \* the activation of the web_search tool

store_vars == <<sessions, uuid_count, now, appended, last_call, issued>>
pipe_vars == <<pc, call, frame, run, result>>
tool_vars == <<rag, web>>
vars == <<sessions, uuid_count, now, appended, last_call, issued, pc, call, frame, run, result,
          rag, web>>

\* ------------------------------------------------------------ session store

\* h[-n:] of Python
SliceLast(h, n) == IF Len(h) <= n THEN h ELSE SubSeq(h, Len(h) - n + 1, Len(h))

\* mutant: every draw gives the same id
generate_session_id_constant(n) == "u1"

\* str(uuid.uuid4()): the n+1-th draw. uuid4 is modelled as a source of fresh
\* names: a draw differs from all earlier draws and from every id a caller
\* has supplied.
generate_session_id(n) == "u" \o ToString(n + 1)

\* mutant: the counter of a new session starts at 0
NewSession_zero(id, user, t) ==
    [session_id |-> id, user_id |-> user, created_at |-> t,
     last_activity |-> t, total_queries |-> 0, conversation_history |-> <<>>]

\* the dict literal of get_or_create_session
NewSession(id, user, t) ==
    [session_id |-> id, user_id |-> user, created_at |-> t,
     last_activity |-> t, total_queries |-> 1, conversation_history |-> <<>>]

\* `session_id and session_id in self.sessions`
IsKnown(S, sid) == sid # None /\ sid # "" /\ sid \in DOMAIN S

\* S[k] = v of a Python dict: insert or overwrite
DictSet(S, k, v) == [x \in DOMAIN S \cup {k} |-> IF x = k THEN v ELSE S[x]]

\* mutant: resolving a known session refreshes last_activity only
get_or_create_session_no_increment(S, n, sid, user, t) ==
    IF IsKnown(S, sid)
    THEN [sessions |-> [S EXCEPT ![sid].last_activity = t],
          ret |-> sid, drawn |-> n]
    ELSE LET new_session_id == generate_session_id(n)
         IN [sessions |-> DictSet(S, new_session_id,
                                  NewSession(new_session_id, user, t)),
             ret |-> new_session_id, drawn |-> n + 1]

\* mutant: the query counter of every session is incremented
get_or_create_session_counts_all(S, n, sid, user, t) ==
    IF IsKnown(S, sid)
    THEN [sessions |-> [x \in DOMAIN S |->
                           IF x = sid
                           THEN [S[x] EXCEPT !.last_activity = t,
                                             !.total_queries = @ + 1]
                           ELSE [S[x] EXCEPT !.total_queries = @ + 1]],
          ret |-> sid, drawn |-> n]
    ELSE LET new_session_id == generate_session_id(n)
         IN [sessions |-> DictSet(S, new_session_id,
                                  NewSession(new_session_id, user, t)),
             ret |-> new_session_id, drawn |-> n + 1]

\* get_or_create_session: the store after the call and the returned id
get_or_create_session(S, n, sid, user, t) ==
    IF IsKnown(S, sid)
    THEN [sessions |-> [S EXCEPT ![sid].last_activity = t,
                                 ![sid].total_queries = @ + 1],
          ret |-> sid, drawn |-> n]
    ELSE LET new_session_id == generate_session_id(n)
         IN [sessions |-> DictSet(S, new_session_id,
                                  NewSession(new_session_id, user, t)),
             ret |-> new_session_id, drawn |-> n + 1]

Exchange(q, r, tag) == [query |-> q, response |-> r, timestamp |-> tag]

\* mutant: the history is never truncated
add_to_conversation_history_unbounded(S, sid, q, r, tag) ==
    IF sid \in DOMAIN S
    THEN [S EXCEPT ![sid].conversation_history = Append(@, Exchange(q, r, tag))]
    ELSE S

\* mutant: truncation keeps the first three exchanges, [:3] for [-3:]
add_to_conversation_history_keep_first(S, sid, q, r, tag) ==
    IF sid \in DOMAIN S
    THEN LET h == Append(S[sid].conversation_history, Exchange(q, r, tag))
         IN [S EXCEPT ![sid].conversation_history =
                 IF Len(h) > HISTORY_LIMIT THEN SubSeq(h, 1, HISTORY_LIMIT) ELSE h]
    ELSE S

\* mutant: an unknown id gets a session that holds the exchange
add_to_conversation_history_creates(S, sid, q, r, tag) ==
    IF sid \in DOMAIN S
    THEN LET h == Append(S[sid].conversation_history, Exchange(q, r, tag))
         IN [S EXCEPT ![sid].conversation_history =
                 IF Len(h) > HISTORY_LIMIT THEN SliceLast(h, HISTORY_LIMIT) ELSE h]
    ELSE DictSet(S, sid, [NewSession(sid, "default_user", 0) EXCEPT
                              !.conversation_history = <<Exchange(q, r, tag)>>])

\* add_to_conversation_history: the store after the call
add_to_conversation_history(S, sid, q, r, tag) ==
    IF sid \in DOMAIN S
    THEN LET h == Append(S[sid].conversation_history, Exchange(q, r, tag))
         IN [S EXCEPT ![sid].conversation_history =
                 IF Len(h) > HISTORY_LIMIT THEN SliceLast(h, HISTORY_LIMIT) ELSE h]
    ELSE S

\* the exchanges appended to session s, oldest first
AppendedTo(s) ==
    LET mine == SelectSeq(appended, LAMBDA p : p[1] = s)
    IN [i \in 1..Len(mine) |-> mine[i][2]]

\* ids a caller can supply: nothing, a string that is no uuid, or an id that
\* an earlier call returned to it
SuppliedIds == {None} \cup ForeignIds \cup issued

\* ids the callers of handle_math_query_with_memory supply: as above, with
\* one unknown string
QueryIds == {None, "typo"} \cup issued

StoreInit ==
    /\ sessions = [x \in {} |-> 0]
    /\ uuid_count = 0
    /\ now = 0
    /\ appended = <<>>
    /\ last_call = [op |-> "none"]
    /\ issued = {}

\* ------------------------------------------------------------- guardrails

\* what the classification call (Runner.run on a guardrail agent) can do:
\* raise, or return a validation result (final_output)
ClassifierOutcomes ==
    {[raised |-> TRUE, is_math_related |-> FALSE, is_appropriate |-> FALSE]}
    \cup {[raised |-> FALSE, is_math_related |-> a, is_appropriate |-> b] :
              a \in BOOLEAN, b \in BOOLEAN}

NoOutcome == [raised |-> FALSE, is_math_related |-> TRUE, is_appropriate |-> TRUE]

\* a str input and str(input) of a list input
StrInput(text) == [is_list |-> FALSE, value |-> text]

\* the isinstance(input, list) branch of math_input_guardrail_simple
guardrail_input_text(input) ==
    IF input.is_list THEN <<"[">> \o input.value \o <<"]">> ELSE input.value

\* mutant: the input guardrail trips only when both flags are false
math_input_guardrail_lenient(input, outcome) ==
    LET input_text == guardrail_input_text(input)
    IN IF outcome.raised
       THEN [text |-> input_text, output_info |-> "error",
             tripwire_triggered |-> FALSE]
       ELSE [text |-> input_text, output_info |-> "validation_result",
             tripwire_triggered |->
                 ~outcome.is_math_related /\ ~outcome.is_appropriate]

\* math_input_guardrail_simple: the text it sends to the classifier and the
\* GuardrailFunctionOutput it returns
math_input_guardrail_simple(input, outcome) ==
    LET input_text == guardrail_input_text(input)
    IN IF outcome.raised
       THEN [text |-> input_text, output_info |-> "error",
             tripwire_triggered |-> FALSE]
       ELSE [text |-> input_text, output_info |-> "validation_result",
             tripwire_triggered |->
                 ~(outcome.is_math_related /\ outcome.is_appropriate)]

\* s[:n] of Python
Prefix(t, n) == SubSeq(t, 1, IF Len(t) < n THEN Len(t) ELSE n)

\* mutant: the output guardrail trips when the classification call raises
math_output_guardrail_fail_closed(output, outcome) ==
    LET output_summary ==
            <<"Analysis:">> \o Prefix(output.problem_analysis, 200)
            \o <<"Solution:">> \o Prefix(output.step_by_step_solution, 200)
            \o <<"Concepts:">> \o Prefix(output.concept_explanation, 200)
    IN IF outcome.raised
       THEN [text |-> output_summary, output_info |-> "error",
             tripwire_triggered |-> TRUE]
       ELSE [text |-> output_summary, output_info |-> "validation_result",
             tripwire_triggered |->
                 ~(outcome.is_math_related /\ outcome.is_appropriate)]

\* math_output_guardrail_simple: the summary it sends to the classifier and
\* the GuardrailFunctionOutput it returns
math_output_guardrail_simple(output, outcome) ==
    LET output_summary ==
            <<"Analysis:">> \o Prefix(output.problem_analysis, 200)
            \o <<"Solution:">> \o Prefix(output.step_by_step_solution, 200)
            \o <<"Concepts:">> \o Prefix(output.concept_explanation, 200)
    IN IF outcome.raised
       THEN [text |-> output_summary, output_info |-> "error",
             tripwire_triggered |-> FALSE]
       ELSE [text |-> output_summary, output_info |-> "validation_result",
             tripwire_triggered |->
                 ~(outcome.is_math_related /\ outcome.is_appropriate)]

\* --------------------------------------------------------- context, texts

\* mutant: the stored response is given in full
Summary_untruncated(response) == response \o <<"...">>

\* f"{exchange['response'][:500]}..."; a token of a text stands for one
\* character of the string
Summary(response) == Prefix(response, 500) \o <<"...">>

RECURSIVE RenderHistory(_, _)
\* the loop of get_conversation_context from exchange i on
RenderHistory(h, i) ==
    IF i > Len(h) THEN <<>>
    ELSE <<"PREVIOUS QUERY " \o ToString(i) \o ":">> \o h[i].query
         \o <<"PREVIOUS RESPONSE " \o ToString(i) \o " (Summary):">>
         \o Summary(h[i].response)
         \o RenderHistory(h, i + 1)

\* mutant: the marker is returned for an unknown session only
get_conversation_context_unknown_only(S, sid) ==
    IF sid \notin DOMAIN S
    THEN <<"No previous conversation in this session.">>
    ELSE <<"CONVERSATION HISTORY:">> \o RenderHistory(S[sid].conversation_history, 1)

get_conversation_context(S, sid) ==
    IF sid \notin DOMAIN S \/ S[sid].conversation_history = <<>>
    THEN <<"No previous conversation in this session.">>
    ELSE <<"CONVERSATION HISTORY:">> \o RenderHistory(S[sid].conversation_history, 1)

\* mutant: the enhanced query leaves the user's query out
EnhancedQuery_no_user_query(current_session_id, total_queries, conversation_context, query) ==
    <<"Session ID:", current_session_id, "Memory Status: disabled (fallback mode)",
      "Query #" \o ToString(total_queries)>>
    \o conversation_context
    \o <<"CURRENT USER QUERY:">>
    \o <<"Please provide a comprehensive response using rag_search and web_search.">>

\* the enhanced_query f-string of handle_math_query_with_memory
EnhancedQuery(current_session_id, total_queries, conversation_context, query) ==
    <<"Session ID:", current_session_id, "Memory Status: disabled (fallback mode)",
      "Query #" \o ToString(total_queries)>>
    \o conversation_context
    \o <<"CURRENT USER QUERY:">> \o query
    \o <<"Please provide a comprehensive response using rag_search and web_search.">>

\* the final_output values the synthesis model can produce for a session:
\* it echoes the session id and fills the optional texts, or does neither
ModelOutputs(sid) ==
    {[session_id |-> o[1], problem_analysis |-> <<"analysis">>,
      concept_explanation |-> <<"concepts">>,
      step_by_step_solution |-> <<"steps">>,
      alternative_methods |-> o[2], key_formulas_used |-> o[2],
      common_mistakes_to_avoid |-> o[2], related_jee_topics |-> o[2],
      difficulty_level |-> <<"medium">>, time_to_solve_minutes |-> 5,
      practice_recommendations |-> <<"practice">>,
      memory_insights |-> o[2], personalized_tips |-> o[2]] :
         o \in {<<sid, <<"from-model">> >>, <<"hallucinated", <<>> >>}}

\* bound: the length of a long answer of the model, beyond the 500 that the
\* context keeps of a response
LongLen == 501

LongText(n) == [i \in 1..n |-> "c" \o ToString(i)]

\* final outputs whose step_by_step_solution is long
LongOutputs(sid) ==
    {[o EXCEPT !.step_by_step_solution = LongText(LongLen)] : o \in ModelOutputs(sid)}

NoOutput ==
    [session_id |-> None, problem_analysis |-> <<>>, concept_explanation |-> <<>>,
     step_by_step_solution |-> <<>>, alternative_methods |-> <<>>,
     key_formulas_used |-> <<>>, common_mistakes_to_avoid |-> <<>>,
     related_jee_topics |-> <<>>, difficulty_level |-> <<>>,
     time_to_solve_minutes |-> 0, practice_recommendations |-> <<>>,
     memory_insights |-> <<>>, personalized_tips |-> <<>>]

\* mutant: the session_id the model produced is kept
BackFill_keeps_model_id(response, current_session_id) ==
    [response EXCEPT
        !.memory_insights =
            IF @ = <<>> THEN <<"Memory system not available - using session context">> ELSE @,
        !.personalized_tips =
            IF @ = <<>> THEN <<"Focus on practice and concept clarity for success">> ELSE @]

\* lines 170-178: back-fill of session_id and of the two optional texts
BackFill(response, current_session_id) ==
    [response EXCEPT
        !.session_id = current_session_id,
        !.memory_insights =
            IF @ = <<>> THEN <<"Memory system not available - using session context">> ELSE @,
        !.personalized_tips =
            IF @ = <<>> THEN <<"Focus on practice and concept clarity for success">> ELSE @]

RECURSIVE Labelled(_, _, _)
\* the items of a list from item i on, each behind its label: "Method i:"
\* when numbered, a bullet otherwise
Labelled(items, i, numbered) ==
    IF i > Len(items) THEN <<>>
    ELSE <<IF numbered THEN "Method " \o ToString(i) \o ":" ELSE "*">>
         \o <<items[i]>> \o Labelled(items, i + 1, numbered)

\* the formatted_response f-string; "<ws>" is its leading and trailing blank
FormattedResponse(response, total_queries) ==
    <<"<ws>", "Memory Status: disabled (using session context)",
      "Query #" \o ToString(total_queries), "PROBLEM ANALYSIS:">>
    \o response.problem_analysis
    \o <<"CONCEPT EXPLANATION:">> \o response.concept_explanation
    \o <<"STEP-BY-STEP SOLUTION:">> \o response.step_by_step_solution
    \o <<"ALTERNATIVE METHODS:">>
    \o (IF response.alternative_methods # <<>>
        THEN Labelled(response.alternative_methods, 1, TRUE)
        ELSE <<"Standard method provided above">>)
    \o <<"KEY FORMULAS USED:">>
    \o (IF response.key_formulas_used # <<>>
        THEN Labelled(response.key_formulas_used, 1, FALSE)
        ELSE <<"*", "Basic math formulas">>)
    \o <<"COMMON MISTAKES TO AVOID:">>
    \o (IF response.common_mistakes_to_avoid # <<>>
        THEN Labelled(response.common_mistakes_to_avoid, 1, FALSE)
        ELSE <<"*", "Calculation errors and sign mistakes">>)
    \o <<"RELATED TOPICS:">>
    \o (IF response.related_jee_topics # <<>>
        THEN response.related_jee_topics ELSE <<"Math fundamentals">>)
    \o <<"DIFFICULTY LEVEL:">> \o response.difficulty_level
    \o <<"ESTIMATED TIME TO SOLVE:", ToString(response.time_to_solve_minutes), "minutes">>
    \o <<"PRACTICE RECOMMENDATIONS:">> \o response.practice_recommendations
    \o <<"MEMORY INSIGHTS:">> \o response.memory_insights
    \o <<"PERSONALIZED TIPS:">> \o response.personalized_tips
    \o <<"<ws>">>

RECURSIVE Strip(_)
\* str.strip()
Strip(t) ==
    IF t = <<>> THEN t
    ELSE IF Head(t) = "<ws>" THEN Strip(Tail(t))
    ELSE IF t[Len(t)] = "<ws>" THEN Strip(SubSeq(t, 1, Len(t) - 1))
    ELSE t

\* mutant: `except Exception` comes first and catches the output tripwire
ExceptResult_generic_first(exc, e, session_id) ==
    IF exc = "InputGuardrailTripwireTriggered"
    THEN [success |-> FALSE,
          error |-> <<"INPUT REJECTED: Please ask math questions only.">>,
          session_id |-> session_id, error_type |-> "input_validation"]
    ELSE [success |-> FALSE, error |-> <<"SYSTEM ERROR:">> \o e,
          session_id |-> session_id, error_type |-> "system_error"]

\* the three except clauses of handle_math_query_with_memory
ExceptResult(exc, e, session_id) ==
    IF exc = "InputGuardrailTripwireTriggered"
    THEN [success |-> FALSE,
          error |-> <<"INPUT REJECTED: Please ask math questions only.">>,
          session_id |-> session_id, error_type |-> "input_validation"]
    ELSE IF exc = "OutputGuardrailTripwireTriggered"
    THEN [success |-> FALSE,
          error |-> <<"OUTPUT QUALITY CHECK FAILED: Response didn't meet standards. Please try rephrasing.">>,
          session_id |-> session_id, error_type |-> "output_validation"]
    ELSE [success |-> FALSE, error |-> <<"SYSTEM ERROR:">> \o e,
          session_id |-> session_id, error_type |-> "system_error"]

\* a direct call of get_or_create_session(session_id, user_id)
CallGetOrCreate ==
    \E sid \in SuppliedIds, user \in UserIds :
        LET out == get_or_create_session(sessions, uuid_count, sid, user, now + 1)
        IN /\ now < MaxCalls
           /\ IsKnown(sessions, sid) \/ uuid_count < MaxSessions
           /\ sessions' = out.sessions
           /\ uuid_count' = out.drawn
           /\ now' = now + 1
           /\ last_call' = [op |-> "get_or_create_session", session_id |-> sid,
                            known |-> IsKnown(sessions, sid), ret |-> out.ret]
           /\ issued' = issued \cup {out.ret}
           /\ UNCHANGED appended
           /\ UNCHANGED <<pipe_vars, tool_vars>>

\* a direct call of get_conversation_context(session_id)
CallGetContext ==
    \E sid \in SuppliedIds \ {None} :
        /\ last_call' = [op |-> "get_conversation_context", session_id |-> sid,
                         known |-> sid \in DOMAIN sessions,
                         ret |-> get_conversation_context(sessions, sid)]
        /\ UNCHANGED <<sessions, uuid_count, now, appended, issued>>
        /\ UNCHANGED <<pipe_vars, tool_vars>>

\* a direct call of add_to_conversation_history(session_id, query, response)
\* with a response of responses
AppendCall(responses) ==
    \E sid \in SuppliedIds \ {None}, q \in Queries, r \in responses, tag \in Tags :
        /\ sid \in DOMAIN sessions => Len(appended) < MaxAppends
        /\ sessions' = add_to_conversation_history(sessions, sid, q, r, tag)
        /\ appended' = IF sid \in DOMAIN sessions
                       THEN Append(appended, <<sid, Exchange(q, r, tag)>>)
                       ELSE appended
        /\ last_call' = [op |-> "add_to_conversation_history", session_id |-> sid,
                         known |-> sid \in DOMAIN sessions, ret |-> None]
        /\ UNCHANGED <<uuid_count, now, issued>>
        /\ UNCHANGED <<pipe_vars, tool_vars>>

CallAppend == AppendCall(Responses)

\* the response is a long text
CallAppendLong == AppendCall({LongText(LongLen)})

\* --------------------------------------------------------------- the tools

\* bounds: how far num_chunks ranges beyond the clamp interval, hits a
\* service returns, and queries in one web_search batch
KMargin == 2
MaxHits == 1
MaxWebQueries == 2

Min(a, b) == IF a < b THEN a ELSE b
Max(a, b) == IF a > b THEN a ELSE b

EmptyMap == [x \in {} |-> <<>>]

\* rag_search arguments: query texts (empty, whitespace only, padded, plain)
\* and the integers num_chunks around the interval 1..10
RagQueries == {<<>>, <<"<ws>">>, <<"<ws>", "limits", "<ws>">>, <<"limits">>}
RagChunks == (1 - KMargin)..(10 + KMargin)

\* mutant: the lower clamp is dropped
ClampChunks_no_floor(num_chunks) == Min(num_chunks, 10)

\* num_chunks = max(1, min(num_chunks, 10))
ClampChunks(num_chunks) == Max(1, Min(num_chunks, 10))

\* RAGSearchResult built from the i-th scored point
RAGSearchResult(i) ==
    [content_id |-> "c" \o ToString(i), problem |-> "p" \o ToString(i),
     solution |-> "s" \o ToString(i), section |-> "", difficulty_level |-> "",
     similarity_score |-> "score" \o ToString(i)]

\* mutant: the except clause re-raises what it caught
rag_search_outcome_reraises(exc, results) ==
    IF exc # "none" THEN [raised |-> exc, value |-> <<>>]
    ELSE [raised |-> "none", value |-> results]

\* the try/except around the body of rag_search: an exception raised in the
\* body is logged and [] returned; otherwise the results are returned
rag_search_outcome(exc, results) ==
    IF exc # "none" THEN [raised |-> "none", value |-> <<>>]
    ELSE [raised |-> "none", value |-> results]

\* called_with keeps the argument num_chunks, which line 54 rebinds
RagIdle ==
    [pc |-> "idle", query |-> <<>>, called_with |-> 4, num_chunks |-> 4, limit |-> 0,
     embed_calls |-> 0, search_calls |-> 0, caught |-> "none",
     raised |-> "none", ret |-> <<>>]

\* web_search arguments and the replies of the search service
WebQueryTexts == {"limits", "series"}
WebQueryLists ==
    UNION {[1..n -> WebQueryTexts] : n \in 0..MaxWebQueries}
WebReplies ==
    {[raised |-> FALSE, status_code |-> 200, n |-> n] : n \in 0..MaxHits}
        \cup {[raised |-> FALSE, status_code |-> 429, n |-> 0],
              [raised |-> TRUE, status_code |-> 0, n |-> 0]}

WebHit(i) == [title |-> "t" \o ToString(i), url |-> "u" \o ToString(i),
              content |-> "x" \o ToString(i)]

\* mutant: the credential is not looked at
web_search_guard_no_key_check(queries, api_key) ==
    IF queries = <<>>
    THEN [status |-> "error", error |-> "No search queries provided",
          results |-> EmptyMap]
    ELSE [status |-> "go"]

\* the two early returns of web_search
web_search_guard(queries, api_key) ==
    IF queries = <<>>
    THEN [status |-> "error", error |-> "No search queries provided",
          results |-> EmptyMap]
    ELSE IF ~api_key
    THEN [status |-> "error", error |-> "Tavily API key not configured",
          results |-> EmptyMap]
    ELSE [status |-> "go"]

\* mutant: the status code of the reply is not looked at
web_entry_ignores_status(query, reply) ==
    IF reply.raised
    THEN [error |-> "exception", search_results |-> <<>>, citations |-> <<>>,
          result_count |-> 0]
    ELSE [summary |-> <<"Found", ToString(reply.n), "sources for", query>>,
          search_results |-> [i \in 1..reply.n |-> WebHit(i)],
          citations |-> [i \in 1..reply.n |->
                            [title |-> WebHit(i).title, url |-> WebHit(i).url]],
          result_count |-> reply.n,
          answer |-> "answer"]

\* the body of the loop of web_search: the entry stored under results[query]
web_entry(query, reply) ==
    IF reply.raised
    THEN [error |-> "exception", search_results |-> <<>>, citations |-> <<>>,
          result_count |-> 0]
    ELSE IF reply.status_code # 200
    THEN [error |-> "API error: " \o ToString(reply.status_code),
          search_results |-> <<>>, citations |-> <<>>, result_count |-> 0]
    ELSE [summary |-> <<"Found", ToString(reply.n), "sources for", query>>,
          search_results |-> [i \in 1..reply.n |-> WebHit(i)],
          citations |-> [i \in 1..reply.n |->
                            [title |-> WebHit(i).title, url |-> WebHit(i).url]],
          result_count |-> reply.n,
          answer |-> "answer"]

NoReturn == [status |-> "none"]

WebIdle ==
    [pc |-> "idle", queries |-> <<>>, api_key |-> FALSE, results |-> EmptyMap,
     sent |-> <<>>, replies |-> <<>>, ret |-> NoReturn]

\* the bodies of the two tools as the model's tool call runs them: with ok
\* the service answers (one hit), without it the tool is degraded: the
\* vector search fails, or TAVILY_API_KEY is unset
ToolBody(tool, ok) ==
    IF tool = "rag_search"
    THEN LET out == rag_search_outcome(IF ok THEN "none" ELSE "SearchError",
                                       IF ok THEN <<RAGSearchResult(1)>> ELSE <<>>)
         IN [raised |-> out.raised, degraded |-> out.value = <<>>]
    ELSE LET guard == web_search_guard(<<"limits">>, ok)
         IN [raised |-> "none", degraded |-> guard.status = "error"]

\* mutant: a degraded tool raises instead of returning its payload
ToolReturn_raises_degraded(tool, ok) ==
    LET body == ToolBody(tool, ok)
    IN IF body.degraded THEN [raised |-> "ToolError", degraded |-> TRUE]
       ELSE body

\* @function_tool: what the run gets back from a tool call. The decorator
\* is used bare, so an exception of the body would be turned into an error
\* message for the model; a payload is handed on as it is
ToolReturn(tool, ok) ==
    LET body == ToolBody(tool, ok)
    IN IF body.raised # "none" THEN [raised |-> "none", degraded |-> TRUE]
       ELSE body

\* ------------------------------------------- handle_math_query_with_memory

\* bounds: concurrent handler activations, and tool calls within one run
NumReq == 2
MaxToolCalls == 1

Req == 1..NumReq
Tools == {"rag_search", "web_search"}

NoCall == [query |-> <<>>, session_id |-> None, user_id |-> "default_user"]
NoFrame == [current_session_id |-> None, conversation_context |-> <<>>,
            enhanced_query |-> <<>>]
NoCheck == [ran |-> FALSE, text |-> <<>>, outcome |-> NoOutcome,
            output_info |-> "none", tripwire_triggered |-> FALSE]
NoResult == [success |-> FALSE, error |-> <<>>, session_id |-> None,
             error_type |-> "none"]

\* Runner.run(self.agent, enhanced_query) at its start: the agent carries one
\* input guardrail, one output guardrail and the two tools
RunStart(input) ==
    [input |-> input, in_check |-> NoCheck, turn |-> 1, llm |-> "ready",
     final_output |-> NoOutput, out_check |-> NoCheck, spent |-> {},
     degraded |-> FALSE, raised |-> "none"]
NoRun == RunStart(StrInput(<<>>))

Init ==
    /\ StoreInit
    /\ pc = [r \in Req |-> "idle"]
    /\ call = [r \in Req |-> NoCall]
    /\ frame = [r \in Req |-> NoFrame]
    /\ run = [r \in Req |-> NoRun]
    /\ result = [r \in Req |-> NoResult]
    /\ rag = RagIdle
    /\ web = WebIdle

\* mutant: the exception is recorded and the handler does not return
Raise_no_return(r, exc, e, newrun) ==
    /\ run' = [run EXCEPT ![r] = [newrun EXCEPT !.raised = exc]]
    /\ UNCHANGED <<pc, result>>

\* Runner.run raises exc with message e: the matching except clause builds
\* the result from the session_id argument and the handler returns
Raise(r, exc, e, newrun) ==
    /\ run' = [run EXCEPT ![r] = [newrun EXCEPT !.raised = exc]]
    /\ result' = [result EXCEPT ![r] = ExceptResult(exc, e, call[r].session_id)]
    /\ pc' = [pc EXCEPT ![r] = "done"]

\* mutant: the query is put into the history when it is received
HandleQuery_appends_early(r) ==
    \E q \in Queries, sid \in QueryIds, user \in UserIds :
        LET out == get_or_create_session(sessions, uuid_count, sid, user, now + 1)
            current_session_id == out.ret
            conversation_context ==
                get_conversation_context(out.sessions, current_session_id)
            enhanced_query ==
                EnhancedQuery(current_session_id,
                              out.sessions[current_session_id].total_queries,
                              conversation_context, q)
        IN /\ pc[r] = "idle"
           /\ now < MaxQueries
           /\ IsKnown(sessions, sid) \/ uuid_count < MaxSessions
           /\ sessions' = add_to_conversation_history(out.sessions, current_session_id,
                                                      q, <<>>, "pending")
           /\ uuid_count' = out.drawn
           /\ now' = now + 1
           /\ call' = [call EXCEPT ![r] =
                          [query |-> q, session_id |-> sid, user_id |-> user]]
           /\ frame' = [frame EXCEPT ![r] =
                          [current_session_id |-> current_session_id,
                           conversation_context |-> conversation_context,
                           enhanced_query |-> enhanced_query]]
           /\ run' = [run EXCEPT ![r] = RunStart(StrInput(enhanced_query))]
           /\ pc' = [pc EXCEPT ![r] = "run"]
           /\ UNCHANGED <<appended, last_call, issued, result, tool_vars>>

\* lines 146-167: resolve the session, build the context and the enhanced
\* query, call Runner.run and suspend
HandleQuery(r) ==
    \E q \in Queries, sid \in QueryIds, user \in UserIds :
        LET out == get_or_create_session(sessions, uuid_count, sid, user, now + 1)
            current_session_id == out.ret
            conversation_context ==
                get_conversation_context(out.sessions, current_session_id)
            enhanced_query ==
                EnhancedQuery(current_session_id,
                              out.sessions[current_session_id].total_queries,
                              conversation_context, q)
        IN /\ pc[r] = "idle"
           /\ now < MaxQueries
           /\ IsKnown(sessions, sid) \/ uuid_count < MaxSessions
           /\ sessions' = out.sessions
           /\ uuid_count' = out.drawn
           /\ now' = now + 1
           /\ call' = [call EXCEPT ![r] =
                          [query |-> q, session_id |-> sid, user_id |-> user]]
           /\ frame' = [frame EXCEPT ![r] =
                          [current_session_id |-> current_session_id,
                           conversation_context |-> conversation_context,
                           enhanced_query |-> enhanced_query]]
           /\ run' = [run EXCEPT ![r] = RunStart(StrInput(enhanced_query))]
           /\ pc' = [pc EXCEPT ![r] = "run"]
           /\ UNCHANGED <<appended, last_call, issued, result, tool_vars>>

\* the input guardrail task of the first turn: the guardrail function runs on
\* the input of Runner.run; a tripwire raises InputGuardrailTripwireTriggered
\* out of Runner.run at once, whatever the model task is doing
InputGuardrail(r) ==
    \E outcome \in ClassifierOutcomes :
        LET g == math_input_guardrail_simple(run[r].input, outcome)
            checked == [run[r] EXCEPT !.in_check =
                           [ran |-> TRUE, text |-> g.text, outcome |-> outcome,
                            output_info |-> g.output_info,
                            tripwire_triggered |-> g.tripwire_triggered]]
        IN /\ pc[r] = "run"
           /\ ~run[r].in_check.ran
           /\ IF g.tripwire_triggered
              THEN Raise(r, "InputGuardrailTripwireTriggered", <<>>, checked)
              ELSE /\ run' = [run EXCEPT ![r] = checked]
                   /\ UNCHANGED <<pc, result>>
           /\ UNCHANGED <<store_vars, call, frame, tool_vars>>

\* a model call of the synthesis agent starts. The first turn runs
\* concurrently with the input guardrail task; a later turn starts only
\* after the first turn and the input guardrails have both finished
StartSynthesis(r) ==
    /\ pc[r] = "run"
    /\ run[r].llm = "ready"
    /\ run[r].turn = 1 \/ run[r].in_check.ran
    /\ run' = [run EXCEPT ![r].llm = "calling",
                          ![r].spent = @ \cup {"synthesis"}]
    /\ UNCHANGED <<store_vars, pc, call, frame, result, tool_vars>>

\* the model answers with a tool call and the tool (tools=[rag_search,
\* web_search]) is invoked and returns within the same turn; oks tells
\* whether the services behind the tools may answer, fail, or both, and
\* degraded that a tool returned an error-status or empty payload. An
\* exception that came out of a tool call would end Runner.run
ToolCall(r, oks) ==
    \E tool \in Tools, ok \in oks :
        LET ret == ToolReturn(tool, ok)
            called == [run[r] EXCEPT
                          !.llm = "ready",
                          !.turn = @ + 1,
                          !.spent = @ \cup {tool},
                          !.degraded = @ \/ ret.degraded]
        IN /\ pc[r] = "run"
           /\ run[r].llm = "calling"
           /\ run[r].turn <= MaxToolCalls
           /\ IF ret.raised # "none"
              THEN Raise(r, "Exception", <<"tool call failed">>, called)
              ELSE /\ run' = [run EXCEPT ![r] = called]
                   /\ UNCHANGED <<pc, result>>
           /\ UNCHANGED <<store_vars, call, frame, tool_vars>>

\* a tool call whose services answer
SynthesisToolCall(r) == ToolCall(r, {TRUE})

\* a tool call whose service fails or lacks its credential
DegradedToolCall(r) == ToolCall(r, {FALSE})

\* the model answers with its final output (output_type=MathExpertResponse),
\* one of outs
FinalOutput(r, outs) ==
    \E out \in outs :
        /\ pc[r] = "run"
        /\ run[r].llm = "calling"
        /\ run' = [run EXCEPT ![r].llm = "final", ![r].final_output = out]
        /\ UNCHANGED <<store_vars, pc, call, frame, result, tool_vars>>

SynthesisFinal(r) == FinalOutput(r, ModelOutputs(frame[r].current_session_id))

\* the final output is a long answer
SynthesisFinalLong(r) == FinalOutput(r, LongOutputs(frame[r].current_session_id))

\* mutant: a failed model call is made again
SynthesisFails_retries(r) ==
    /\ pc[r] = "run"
    /\ run[r].llm = "calling"
    /\ run' = [run EXCEPT ![r].llm = "ready"]
    /\ UNCHANGED <<pc, result>>
    /\ UNCHANGED <<store_vars, call, frame, tool_vars>>

\* the model call fails (transport error, schema violation): Runner.run
\* raises an exception that is no tripwire
SynthesisFails(r) ==
    /\ pc[r] = "run"
    /\ run[r].llm = "calling"
    /\ Raise(r, "Exception", <<"model call failed">>, [run[r] EXCEPT !.llm = "failed"])
    /\ UNCHANGED <<store_vars, call, frame, tool_vars>>

\* the output guardrail runs on the final output once the first turn's
\* guardrails are through; a tripwire raises OutputGuardrailTripwireTriggered
OutputGuardrail(r) ==
    \E outcome \in ClassifierOutcomes :
        LET g == math_output_guardrail_simple(run[r].final_output, outcome)
            checked == [run[r] EXCEPT !.out_check =
                           [ran |-> TRUE, text |-> g.text, outcome |-> outcome,
                            output_info |-> g.output_info,
                            tripwire_triggered |-> g.tripwire_triggered]]
        IN /\ pc[r] = "run"
           /\ run[r].llm = "final"
           /\ run[r].in_check.ran
           /\ ~run[r].out_check.ran
           /\ IF g.tripwire_triggered
              THEN Raise(r, "OutputGuardrailTripwireTriggered", <<>>, checked)
              ELSE /\ run' = [run EXCEPT ![r] = checked]
                   /\ UNCHANGED <<pc, result>>
           /\ UNCHANGED <<store_vars, call, frame, tool_vars>>

\* mutant: any stored exchange counts, the one just appended too
has_context_nonempty(conversation_history) == Len(conversation_history) > 0

\* "has_context": len(...["conversation_history"]) > 1, on the history that
\* already holds the exchange just appended
has_context(conversation_history) == Len(conversation_history) > 1

\* mutant: the history is replaced by the new exchange, the exchanges
\* completed meanwhile are lost
Complete_overwrites_history(r) ==
    \E tag \in Tags :
        LET current_session_id == frame[r].current_session_id
            response == BackFill(run[r].final_output, current_session_id)
            formatted_response ==
                FormattedResponse(response, sessions[current_session_id].total_queries)
            after == [sessions EXCEPT ![current_session_id].conversation_history =
                         <<Exchange(call[r].query, formatted_response, tag)>>]
        IN /\ pc[r] = "run"
           /\ run[r].out_check.ran
           /\ sessions' = after
           /\ appended' = Append(appended,
                  <<current_session_id,
                    Exchange(call[r].query, formatted_response, tag)>>)
           /\ result' = [result EXCEPT ![r] =
                  [success |-> TRUE,
                   session_id |-> current_session_id,
                   response |-> Strip(formatted_response),
                   structured_response |-> response,
                   session_info |-> after[current_session_id],
                   total_queries |-> after[current_session_id].total_queries,
                   memory_enabled |-> FALSE,
                   has_context |->
                       has_context(after[current_session_id].conversation_history)]]
           /\ issued' = issued \cup {current_session_id}
           /\ pc' = [pc EXCEPT ![r] = "done"]
           /\ UNCHANGED <<uuid_count, now, last_call, call, frame, run, tool_vars>>

\* lines 168-233: Runner.run has returned; back-fill, format, append the
\* exchange and return the success dict
Complete(r) ==
    \E tag \in Tags :
        LET current_session_id == frame[r].current_session_id
            response == BackFill(run[r].final_output, current_session_id)
            formatted_response ==
                FormattedResponse(response, sessions[current_session_id].total_queries)
            after == add_to_conversation_history(sessions, current_session_id,
                                                 call[r].query, formatted_response, tag)
        IN /\ pc[r] = "run"
           /\ run[r].out_check.ran
           /\ sessions' = after
           /\ appended' = Append(appended,
                  <<current_session_id,
                    Exchange(call[r].query, formatted_response, tag)>>)
           /\ result' = [result EXCEPT ![r] =
                  [success |-> TRUE,
                   session_id |-> current_session_id,
                   response |-> Strip(formatted_response),
                   structured_response |-> response,
                   session_info |-> after[current_session_id],
                   total_queries |-> after[current_session_id].total_queries,
                   memory_enabled |-> FALSE,
                   has_context |->
                       has_context(after[current_session_id].conversation_history)]]
           /\ issued' = issued \cup {current_session_id}
           /\ pc' = [pc EXCEPT ![r] = "done"]
           /\ UNCHANGED <<uuid_count, now, last_call, call, frame, run, tool_vars>>

\* the caller has taken the result; the activation is over
Return(r) ==
    /\ pc[r] = "done"
    /\ pc' = [pc EXCEPT ![r] = "idle"]
    /\ call' = [call EXCEPT ![r] = NoCall]
    /\ frame' = [frame EXCEPT ![r] = NoFrame]
    /\ run' = [run EXCEPT ![r] = NoRun]
    /\ result' = [result EXCEPT ![r] = NoResult]
    /\ UNCHANGED <<store_vars, tool_vars>>

Step(r) ==
    \/ HandleQuery(r)
    \/ InputGuardrail(r)
    \/ StartSynthesis(r)
    \/ SynthesisToolCall(r)
    \/ SynthesisFinal(r)
    \/ SynthesisFails(r)
    \/ OutputGuardrail(r)
    \/ Complete(r)
    \/ Return(r)

\* the callers of app.py: run_async_query blocks on run_until_complete, so one
\* activation runs at a time
Next == Step(1)

Spec == Init /\ [][Next]_vars

StoreNext == CallGetOrCreate \/ CallAppend

SpecStore == Init /\ [][StoreNext]_vars

\* --------------------------------------------- concurrent activations

\* the handler activations of one event loop (asyncio.gather over several
\* handle_math_query_with_memory calls on one MathExpertWithMemory): the code
\* between two awaits runs without interruption, so each activation moves by
\* the same steps and the steps of different activations interleave.
\* The inputs are narrowed to those that bear on the shared session store:
\* a new call takes the idle activation of smallest index, activation r asks
\* the query QueryOf(r) with no id or an id a result has carried, the
\* classifiers let the query and the answer pass (a failing activation fails
\* by its model call), the model echoes the session id and calls a tool at
\* most once, rag_search
QueryOf(r) == IF r = 1 THEN <<"integral">> ELSE <<"pizza">>

ConcOutcomes ==
    {o \in ClassifierOutcomes : ~o.raised /\ o.is_math_related /\ o.is_appropriate}

\* the steps between HandleQuery and Complete, and Return, read and write
\* only pc[r], run[r] and result[r] of their own activation, so they commute
\* with every step of another activation. Of the interleavings that differ
\* only in the order of such steps one is kept: an activation takes such a
\* step when no activation of smaller index has one to take. HandleQuery
\* and Complete, the steps on self.sessions, interleave freely
Busy(r) == pc[r] = "done" \/ (pc[r] = "run" /\ ~run[r].out_check.ran)

Turn(r) == \A o \in Req : o < r => ~Busy(o)

ConcHandleQuery(r) ==
    /\ \A o \in Req : o < r => pc[o] # "idle"
    /\ HandleQuery(r)
    /\ call'[r].query = QueryOf(r)
    /\ call'[r].session_id \in {None} \cup issued

ConcInputGuardrail(r) ==
    /\ Turn(r)
    /\ InputGuardrail(r)
    /\ run'[r].in_check.outcome \in ConcOutcomes

ConcStartSynthesis(r) ==
    /\ Turn(r)
    /\ StartSynthesis(r)

ConcSynthesisToolCall(r) ==
    /\ Turn(r)
    /\ SynthesisToolCall(r)
    /\ run[r].turn = 1
    /\ "web_search" \notin run'[r].spent
    /\ ~run'[r].degraded

ConcSynthesisFinal(r) ==
    /\ Turn(r)
    /\ SynthesisFinal(r)
    /\ run'[r].final_output.session_id = frame[r].current_session_id

ConcSynthesisFails(r) ==
    /\ Turn(r)
    /\ SynthesisFails(r)

ConcOutputGuardrail(r) ==
    /\ Turn(r)
    /\ OutputGuardrail(r)
    /\ run'[r].out_check.outcome \in ConcOutcomes

ConcReturn(r) ==
    /\ Turn(r)
    /\ Return(r)

ConcNext ==
    \E r \in Req :
        \/ ConcHandleQuery(r)
        \/ ConcInputGuardrail(r)
        \/ ConcStartSynthesis(r)
        \/ ConcSynthesisToolCall(r)
        \/ ConcSynthesisFinal(r)
        \/ ConcSynthesisFails(r)
        \/ ConcOutputGuardrail(r)
        \/ Complete(r)
        \/ ConcReturn(r)

SpecConcurrent == Init /\ [][ConcNext]_vars

\* ------------------------------------------------- degraded tool calls

\* one activation at a time, as Spec, with tool calls that may degrade; the
\* caller supplies no id or an id a result has carried, and the model echoes
\* the session id
DegradedNext ==
    \/ ConcHandleQuery(1)
    \/ InputGuardrail(1)
    \/ StartSynthesis(1)
    \/ SynthesisToolCall(1)
    \/ DegradedToolCall(1)
    \/ ConcSynthesisFinal(1)
    \/ SynthesisFails(1)
    \/ OutputGuardrail(1)
    \/ Complete(1)
    \/ Return(1)

SpecDegraded == Init /\ [][DegradedNext]_vars

\* the same with every external call returning: an awaited call (classifier,
\* model, tool) ends with a value or an error, and the event loop resumes
\* the handler, so a step that is possible is taken
SpecDegradedFair == SpecDegraded /\ WF_vars(DegradedNext)

\* --------------------------------------------------- context carry-over

\* the query of the n-th call: successive queries differ
QueryAt(n) == IF n % 2 = 1 THEN <<"integral">> ELSE <<"pizza">>

\* one activation at a time, as Spec, with answers short and long; the
\* caller supplies no id or an id a result has carried, the classifiers let
\* the query and the answer pass and the model echoes the session id
ContextHandleQuery(r) ==
    /\ HandleQuery(r)
    /\ call'[r].query = QueryAt(now')
    /\ call'[r].session_id \in {None} \cup issued

ContextSynthesisFinalLong(r) ==
    /\ SynthesisFinalLong(r)
    /\ run'[r].final_output.session_id = frame[r].current_session_id

ContextNext ==
    \/ ContextHandleQuery(1)
    \/ ConcInputGuardrail(1)
    \/ StartSynthesis(1)
    \/ ConcSynthesisFinal(1)
    \/ ContextSynthesisFinalLong(1)
    \/ SynthesisFails(1)
    \/ ConcOutputGuardrail(1)
    \/ Complete(1)
    \/ Return(1)

SpecContext == Init /\ [][ContextNext]_vars

\* direct calls of the store and of the context builder, with responses
\* short and long; the n-th exchange appended holds the query QueryAt(n)
BuilderGetOrCreate ==
    /\ CallGetOrCreate
    /\ last_call'.session_id = None

BuilderAppend ==
    /\ CallAppend
    /\ last_call'.known
    /\ appended'[Len(appended')][2].query = QueryAt(Len(appended'))

BuilderAppendLong ==
    /\ CallAppendLong
    /\ last_call'.known
    /\ appended'[Len(appended')][2].query = QueryAt(Len(appended'))

BuilderNext ==
    \/ BuilderGetOrCreate
    \/ BuilderAppend
    \/ BuilderAppendLong
    \/ CallGetContext

SpecBuilder == Init /\ [][BuilderNext]_vars

\* ---------------------------------------------- rag_search and web_search

\* rag_search(query, num_chunks) up to its first await: the empty-query
\* test, whose ValueError the enclosing except clause catches, and the clamp
RagSearchCall ==
    /\ rag.pc = "idle"
    /\ web.pc = "idle"
    /\ \E query \in RagQueries, num_chunks \in RagChunks :
           IF Strip(query) = <<>>
           THEN LET out == rag_search_outcome("ValueError", <<>>)
                IN rag' = [RagIdle EXCEPT !.pc = "done", !.query = query,
                                          !.called_with = num_chunks,
                                          !.num_chunks = num_chunks,
                                          !.caught = "ValueError",
                                          !.raised = out.raised,
                                          !.ret = out.value]
           ELSE rag' = [RagIdle EXCEPT !.pc = "embedding", !.query = query,
                                       !.called_with = num_chunks,
                                       !.num_chunks = ClampChunks(num_chunks)]
    /\ UNCHANGED <<store_vars, pipe_vars, web>>

\* await generate_embedding(query): the embedding service answers or fails;
\* generate_embedding logs a failure and re-raises it into rag_search
RagEmbedding ==
    /\ rag.pc = "embedding"
    /\ \E ok \in BOOLEAN :
           IF ok
           THEN rag' = [rag EXCEPT !.pc = "searching",
                                   !.embed_calls = rag.embed_calls + 1]
           ELSE LET out == rag_search_outcome("EmbeddingError", <<>>)
                IN rag' = [rag EXCEPT !.pc = "done",
                                      !.embed_calls = rag.embed_calls + 1,
                                      !.caught = "EmbeddingError",
                                      !.raised = out.raised,
                                      !.ret = out.value]
    /\ UNCHANGED <<store_vars, pipe_vars, web>>

\* await qdrant_client.search(..., limit=num_chunks, ...): the service
\* fails, or returns at most limit points, each made a RAGSearchResult
RagQdrantSearch ==
    /\ rag.pc = "searching"
    /\ \/ LET out == rag_search_outcome("SearchError", <<>>)
          IN rag' = [rag EXCEPT !.pc = "done", !.limit = rag.num_chunks,
                                !.search_calls = rag.search_calls + 1,
                                !.caught = "SearchError",
                                !.raised = out.raised, !.ret = out.value]
       \/ \E n \in 0..Min(rag.num_chunks, MaxHits) :
              LET out == rag_search_outcome("none",
                                            [i \in 1..n |-> RAGSearchResult(i)])
              IN rag' = [rag EXCEPT !.pc = "done", !.limit = rag.num_chunks,
                                    !.search_calls = rag.search_calls + 1,
                                    !.raised = out.raised, !.ret = out.value]
    /\ UNCHANGED <<store_vars, pipe_vars, web>>

\* the caller has the outcome of rag_search
RagReturn ==
    /\ rag.pc = "done"
    /\ rag' = RagIdle
    /\ UNCHANGED <<store_vars, pipe_vars, web>>

\* web_search(queries) up to the loop: the two early returns. api_key is
\* whether TAVILY_API_KEY was set in the environment of this run
WebSearchCall ==
    /\ web.pc = "idle"
    /\ rag.pc = "idle"
    /\ \E queries \in WebQueryLists, api_key \in BOOLEAN :
           LET guard == web_search_guard(queries, api_key)
           IN IF guard.status = "error"
              THEN web' = [WebIdle EXCEPT !.pc = "done", !.queries = queries,
                                          !.api_key = api_key, !.ret = guard]
              ELSE web' = [WebIdle EXCEPT !.pc = "loop", !.queries = queries,
                                          !.api_key = api_key]
    /\ UNCHANGED <<store_vars, pipe_vars, rag>>

\* one iteration of `for query in queries`: the POST and the entry made of
\* its reply; after the last iteration the function returns
WebRequest ==
    /\ web.pc = "loop"
    /\ \E reply \in WebReplies :
           LET i == Len(web.sent) + 1
               query == web.queries[i]
               results == DictSet(web.results, query, web_entry(query, reply))
           IN web' = [web EXCEPT
                  !.sent = Append(web.sent, query),
                  !.replies = Append(web.replies, reply),
                  !.results = results,
                  !.pc = IF i = Len(web.queries) THEN "done" ELSE "loop",
                  !.ret = IF i = Len(web.queries)
                          THEN [status |-> "success",
                                metadata |-> [query_count |-> Len(web.queries)],
                                results |-> results]
                          ELSE NoReturn]
    /\ UNCHANGED <<store_vars, pipe_vars, rag>>

\* the caller has the outcome of web_search
WebReturn ==
    /\ web.pc = "done"
    /\ web' = WebIdle
    /\ UNCHANGED <<store_vars, pipe_vars, rag>>

ToolsNext ==
    \/ RagSearchCall
    \/ RagEmbedding
    \/ RagQdrantSearch
    \/ RagReturn
    \/ WebSearchCall
    \/ WebRequest
    \/ WebReturn

SpecTools == Init /\ [][ToolsNext]_vars

\* ----------------------------------------- the handler with its web tool

\* SpecDegraded with the web_search activation that the first model call of
\* the first query asks for: the run waits while the tool is at work
ToolAtRest == web.pc = "idle"

ToolAsked ==
    pc[1] = "run" /\ run[1].llm = "calling" /\ run[1].turn = 1 /\ now = 1

RetryHandleQuery == ToolAtRest /\ ConcHandleQuery(1)
RetryInputGuardrail == ToolAtRest /\ InputGuardrail(1)
RetryStartSynthesis == ToolAtRest /\ StartSynthesis(1)
RetrySynthesisToolCall == ToolAtRest /\ SynthesisToolCall(1)
RetryDegradedToolCall == ToolAtRest /\ DegradedToolCall(1)
RetrySynthesisFinal == ToolAtRest /\ ConcSynthesisFinal(1)
RetrySynthesisFails == ToolAtRest /\ SynthesisFails(1)
RetryOutputGuardrail == ToolAtRest /\ OutputGuardrail(1)
RetryComplete == ToolAtRest /\ Complete(1)
RetryReturn == ToolAtRest /\ Return(1)
RetryWebSearchCall == ToolAsked /\ WebSearchCall

RetryNext ==
    \/ RetryHandleQuery
    \/ RetryInputGuardrail
    \/ RetryStartSynthesis
    \/ RetrySynthesisToolCall
    \/ RetryDegradedToolCall
    \/ RetrySynthesisFinal
    \/ RetrySynthesisFails
    \/ RetryOutputGuardrail
    \/ RetryComplete
    \/ RetryReturn
    \/ RetryWebSearchCall
    \/ WebRequest
    \/ WebReturn

SpecRetries == Init /\ [][RetryNext]_vars

\* --------------------------------------------------- claims on the store

\* C1: in every reachable state of the store every session's
\* conversation_history holds at most 3 exchanges.
C1_HistoryBounded ==
    \A s \in DOMAIN sessions : Len(sessions[s].conversation_history) <= 3

\* a session that received more than 3 exchanges
C1_Witness ==
    \E s \in DOMAIN sessions :
        /\ Len(AppendedTo(s)) > 3
        /\ Len(sessions[s].conversation_history) = 3

\* C2: eviction is FIFO: after e1..en were appended to a session its history
\* is exactly the last min(n, 3) of them, in append order.
C2_FifoEviction ==
    \A s \in DOMAIN sessions :
        LET h == sessions[s].conversation_history
            log == AppendedTo(s)
            n == Len(log)
        IN /\ Len(h) = Min(n, 3)
           /\ \A i \in 1..Len(h) : h[i] = log[n - Len(h) + i]

\* a session whose oldest exchange was evicted and differs from the ones kept
C2_Witness ==
    \E s \in DOMAIN sessions :
        /\ Len(AppendedTo(s)) = 4
        /\ AppendedTo(s)[1] # AppendedTo(s)[2]
        /\ AppendedTo(s)[1] # AppendedTo(s)[4]
        /\ sessions[s].conversation_history[3] = AppendedTo(s)[4]

\* C3: total_queries of a session never decreases; a get_or_create_session
\* call naming the existing session raises it by exactly 1 and no other
\* operation changes it.
C3_CounterSteps ==
    [][\A s \in DOMAIN sessions :
          /\ s \in DOMAIN sessions'
          /\ sessions'[s].total_queries >= sessions[s].total_queries
          /\ IF last_call'.op = "get_or_create_session" /\ last_call'.session_id = s
             THEN sessions'[s].total_queries = sessions[s].total_queries + 1
             ELSE sessions'[s].total_queries = sessions[s].total_queries]_vars

\* a session resolved twice after its creation, with appends in between
C3_Witness ==
    /\ last_call.op = "get_or_create_session"
    /\ last_call.known
    /\ sessions[last_call.ret].total_queries = 3
    /\ Len(sessions[last_call.ret].conversation_history) = 2

\* C4: get_or_create_session with an absent or unknown id returns a freshly
\* minted id, different from the supplied id and from every id in the store,
\* and the new session starts with total_queries = 1 and an empty history.
C4_UnknownIdMintsFresh ==
    [][(last_call'.op = "get_or_create_session" /\ ~last_call'.known) =>
          LET r == last_call'.ret
          IN /\ r # last_call'.session_id
             /\ r \notin DOMAIN sessions
             /\ DOMAIN sessions' = DOMAIN sessions \cup {r}
             /\ sessions'[r].session_id = r
             /\ sessions'[r].total_queries = 1
             /\ sessions'[r].conversation_history = <<>>]_vars

\* an unknown id supplied while the store already holds a used session
C4_Witness ==
    /\ last_call.op = "get_or_create_session"
    /\ ~last_call.known
    /\ last_call.session_id = "typo"
    /\ \E s \in DOMAIN sessions :
          s # last_call.ret /\ sessions[s].conversation_history # <<>>

\* ------------------------------------------------ claims on the guardrails

\* C5: given a classification, the input guardrail trips if and only if the
\* classification is not (math-related and appropriate); it trips whenever
\* is_math_related is false, whatever is_appropriate says.
C5_InputTripsIff ==
    \A r \in Req :
        LET c == run[r].in_check
        IN (c.ran /\ ~c.outcome.raised) =>
              /\ c.tripwire_triggered
                     <=> ~(c.outcome.is_math_related /\ c.outcome.is_appropriate)
              /\ ~c.outcome.is_math_related => c.tripwire_triggered

\* an input classified as appropriate but not math-related was rejected
C5_Witness ==
    \E r \in Req :
        /\ run[r].in_check.ran
        /\ ~run[r].in_check.outcome.raised
        /\ ~run[r].in_check.outcome.is_math_related
        /\ run[r].in_check.outcome.is_appropriate
        /\ run[r].raised = "InputGuardrailTripwireTriggered"

\* C6: given a classification, the output guardrail trips only when it
\* reports both is_math_related = false and is_appropriate = false, and does
\* not trip when one of the two flags is true.
C6_OutputLenient ==
    \A r \in Req :
        LET c == run[r].out_check
        IN (c.ran /\ ~c.outcome.raised) =>
              (c.tripwire_triggered
                  <=> (~c.outcome.is_math_related /\ ~c.outcome.is_appropriate))

\* C7: both guardrails fail open: when the classification call raises, the
\* guardrail returns tripwire_triggered = false with an error payload, and no
\* query is rejected as input_validation or output_validation on a
\* classification that raised.
C7_FailOpen ==
    \A r \in Req :
        /\ (run[r].in_check.ran /\ run[r].in_check.outcome.raised) =>
              /\ ~run[r].in_check.tripwire_triggered
              /\ run[r].in_check.output_info = "error"
        /\ (run[r].out_check.ran /\ run[r].out_check.outcome.raised) =>
              /\ ~run[r].out_check.tripwire_triggered
              /\ run[r].out_check.output_info = "error"
        /\ (pc[r] = "done" /\ ~result[r].success
                /\ result[r].error_type = "input_validation") =>
              (run[r].in_check.ran /\ ~run[r].in_check.outcome.raised)
        /\ (pc[r] = "done" /\ ~result[r].success
                /\ result[r].error_type = "output_validation") =>
              (run[r].out_check.ran /\ ~run[r].out_check.outcome.raised)

\* a query answered with success although both classification calls raised
C7_Witness ==
    \E r \in Req :
        /\ pc[r] = "done"
        /\ result[r].success
        /\ run[r].in_check.outcome.raised
        /\ run[r].out_check.outcome.raised

\* ------------------------------------------------- claims on the pipeline

\* C8: whenever the input guardrail trips, no synthesis model call and no
\* rag_search or web_search invocation has been started for that query.
C8_ValidateBeforeSpend ==
    \A r \in Req :
        run[r].raised = "InputGuardrailTripwireTriggered" => run[r].spent = {}

\* sub occurs in t as a contiguous run of tokens
IsInfix(sub, t) ==
    \E i \in 1..(Len(t) - Len(sub) + 1) : SubSeq(t, i, i + Len(sub) - 1) = sub

\* C9 as stated: the text handed to the input classifier is the caller's raw
\* query, not the enhanced query.
C9_ValidatorGetsRawQuery ==
    \A r \in Req :
        run[r].in_check.ran => run[r].in_check.text = call[r].query

\* C9 amended: the text handed to the input classifier is the enhanced query
\* given to Runner.run: it carries the session id, the query count and the
\* conversation context, then the raw query, and is not the raw query alone.
C9_ValidatorGetsEnhancedQuery ==
    \A r \in Req :
        run[r].in_check.ran =>
            LET text == run[r].in_check.text
                sid == frame[r].current_session_id
            IN /\ text = frame[r].enhanced_query
               /\ text # call[r].query
               /\ IsInfix(<<"Session ID:", sid>>, text)
               /\ \E n \in 1..MaxQueries : IsInfix(<<"Query #" \o ToString(n)>>, text)
               /\ IsInfix(frame[r].conversation_context
                          \o <<"CURRENT USER QUERY:">> \o call[r].query, text)

\* the input guardrail ran on a query whose session already had a history
C9_Witness ==
    \E r \in Req :
        /\ run[r].in_check.ran
        /\ Head(frame[r].conversation_context) = "CONVERSATION HISTORY:"

\* C10: failure results are typed by cause: an input trip gives
\* input_validation, an output trip output_validation, any other exception
\* system_error; no failure carries another error_type and no success result
\* is returned after a trip.
C10_FailureTyped ==
    \A r \in Req :
        pc[r] = "done" =>
            /\ run[r].in_check.tripwire_triggered =>
                  (~result[r].success /\ result[r].error_type = "input_validation")
            /\ run[r].out_check.tripwire_triggered =>
                  (~result[r].success /\ result[r].error_type = "output_validation")
            /\ run[r].raised = "Exception" =>
                  (~result[r].success /\ result[r].error_type = "system_error")
            /\ ~result[r].success =>
                  /\ result[r].error_type \in
                        {"input_validation", "output_validation", "system_error"}
                  /\ run[r].raised # "none"
            /\ result[r].success =>
                  /\ ~run[r].in_check.tripwire_triggered
                  /\ ~run[r].out_check.tripwire_triggered
                  /\ run[r].raised = "none"

\* a query rejected by the output guardrail after it passed the input one
C10_Witness ==
    \E r \in Req :
        /\ pc[r] = "done"
        /\ run[r].out_check.tripwire_triggered
        /\ run[r].in_check.ran
        /\ result[r].error_type = "output_validation"

\* C11 as stated: a system_error result returned after the session was
\* resolved carries the resolved session's id and the original error message.
C11_SystemErrorCarriesResolvedId ==
    \A r \in Req :
        (pc[r] = "done" /\ ~result[r].success
            /\ result[r].error_type = "system_error") =>
              /\ result[r].session_id = frame[r].current_session_id
              /\ IsInfix(<<"model call failed">>, result[r].error)

\* C12: in every success result structured_response.session_id equals the
\* result's session_id, the resolved session, whatever id the model produced.
C12_SessionIdBackFilled ==
    \A r \in Req :
        (pc[r] = "done" /\ result[r].success) =>
            /\ result[r].structured_response.session_id = result[r].session_id
            /\ result[r].session_id = frame[r].current_session_id
            /\ result[r].session_id \in DOMAIN sessions

\* a success whose model output carried another session id
C12_Witness ==
    \E r \in Req :
        /\ pc[r] = "done"
        /\ result[r].success
        /\ run[r].final_output.session_id = "hallucinated"
        /\ result[r].session_id # "hallucinated"

\* C13: a query that ends rejected or failed appends nothing: only the step
\* that returns a success result changes a conversation_history, and a
\* failure result carries neither the structured response nor the transcript.
C13_FailureAppendsNothing ==
    [][/\ \A s \in DOMAIN sessions :
             sessions'[s].conversation_history # sessions[s].conversation_history
                 => \E r \in Req :
                        pc[r] = "run" /\ pc'[r] = "done" /\ result'[r].success
       /\ \A r \in Req :
             (pc[r] = "run" /\ pc'[r] = "done" /\ ~result'[r].success) =>
                 /\ sessions' = sessions
                 /\ appended' = appended
                 /\ DOMAIN result'[r] =
                        {"success", "error", "session_id", "error_type"}]_vars

\* an output trip on a session with a stored exchange: the computed response
\* exists and the history still holds only the earlier exchange
C13_Witness ==
    \E r \in Req :
        /\ pc[r] = "done"
        /\ ~result[r].success
        /\ result[r].error_type = "output_validation"
        /\ run[r].final_output # NoOutput
        /\ Len(sessions[frame[r].current_session_id].conversation_history) = 1
        /\ Len(AppendedTo(frame[r].current_session_id)) = 1

\* --------------------------------------------------- claims on the tools

\* C14: rag_search called with an empty or whitespace-only query ends in a
\* failure its caller can see, an outcome different from that of a search
\* that found nothing (which returns the empty list and raises nothing)
C14_EmptyQueryFailureVisible ==
    (rag.pc = "done" /\ Strip(rag.query) = <<>>) =>
        [raised |-> rag.raised, value |-> rag.ret]
            # [raised |-> "none", value |-> <<>>]

\* C15: rag_search propagates no failure: when the embedding call or the
\* vector search fails for a non-empty query, it returns the empty list and
\* raises nothing
C15_FailuresYieldEmpty ==
    rag.pc = "done" =>
        /\ rag.raised = "none"
        /\ rag.caught \in {"EmbeddingError", "SearchError"} =>
               /\ Strip(rag.query) # <<>>
               /\ rag.ret = <<>>

C15_Witness ==
    /\ rag.pc = "done"
    /\ Strip(rag.query) # <<>>
    /\ rag.caught = "SearchError"
    /\ rag.embed_calls = 1
    /\ rag.search_calls = 1

\* C16: for every integer k passed as num_chunks, the vector search is
\* called with limit 1 when k < 1, 10 when k > 10 and k otherwise, and no k
\* keeps a non-empty query from reaching the embedding call
C16_LimitClamped ==
    /\ rag.search_calls > 0 =>
           rag.limit = (IF rag.called_with < 1 THEN 1
                        ELSE IF rag.called_with > 10 THEN 10
                        ELSE rag.called_with)
    /\ (rag.pc = "done" /\ Strip(rag.query) # <<>>) => rag.embed_calls = 1

C16_Witness ==
    /\ rag.pc = "done"
    /\ rag.called_with < 1
    /\ rag.search_calls = 1
    /\ rag.limit = 1
    /\ Len(rag.ret) = 1

\* C17: web_search called with an empty query list, or with no credential
\* configured, returns status "error" with an empty results map and sends
\* no request
C17_EarlyErrorSendsNothing ==
    (web.pc = "done" /\ (web.queries = <<>> \/ ~web.api_key)) =>
        /\ web.ret.status = "error"
        /\ web.ret.results = EmptyMap
        /\ web.sent = <<>>

C17_Witness ==
    /\ web.pc = "done"
    /\ web.queries # <<>>
    /\ ~web.api_key
    /\ web.ret.status = "error"

Failed(reply) == reply.raised \/ reply.status_code # 200

IsErrorEntry(entry) ==
    /\ "error" \in DOMAIN entry
    /\ entry.search_results = <<>>
    /\ entry.result_count = 0

\* C18 as stated: for a non-empty batch with a credential every input query
\* has an entry, and every query whose request failed (non-200 status or an
\* exception) has an entry carrying an error and empty results
C18_EveryFailedQueryHasErrorEntry ==
    (web.pc = "done" /\ web.ret.status = "success") =>
        \A i \in 1..Len(web.queries) :
            /\ web.queries[i] \in DOMAIN web.ret.results
            /\ Failed(web.replies[i]) =>
                   IsErrorEntry(web.ret.results[web.queries[i]])

\* C18 amended: one request is sent per input query, in order, whatever the
\* earlier replies were; the results map has one entry per distinct query
\* text, and the entry of a text is made of the reply to the last request
\* sent for that text alone: an error entry with empty results when that
\* request failed, and the same entry whatever the other replies were
C18_EntryFromOwnLastReply ==
    (web.pc = "done" /\ web.ret.status = "success") =>
        /\ web.sent = web.queries
        /\ Len(web.replies) = Len(web.queries)
        /\ DOMAIN web.ret.results = {web.queries[i] : i \in 1..Len(web.queries)}
        /\ \A i \in 1..Len(web.queries) :
               (\A j \in (i + 1)..Len(web.queries) :
                      web.queries[j] # web.queries[i]) =>
                   LET entry == web.ret.results[web.queries[i]]
                       reply == web.replies[i]
                   IN /\ Failed(reply) <=> IsErrorEntry(entry)
                      /\ ~Failed(reply) =>
                             /\ "error" \notin DOMAIN entry
                             /\ entry.result_count = reply.n
                             /\ Len(entry.search_results) = reply.n
                             /\ Len(entry.citations) = reply.n

C18_Witness ==
    /\ web.pc = "done"
    /\ web.ret.status = "success"
    /\ Len(web.queries) = 2
    /\ web.queries[1] # web.queries[2]
    /\ web.replies[1].status_code = 429
    /\ web.replies[2].status_code = 200
    /\ web.replies[2].n = 1
    /\ web.ret.results[web.queries[2]].result_count = 1

\* ------------------------------------ claims on concurrent activations

Resolving(r, s) ==
    pc[r] = "idle" /\ pc'[r] = "run" /\ frame'[r].current_session_id = s

Completing(r, s) ==
    /\ pc[r] = "run" /\ pc'[r] = "done" /\ result'[r].success
    /\ frame[r].current_session_id = s

C20_SessionsIsolated ==
    [][\A B \in DOMAIN sessions :
           /\ B \in DOMAIN sessions'
           /\ sessions'[B] # sessions[B] =>
                  \E r \in Req :
                      /\ pc'[r] # pc[r]
                      /\ B = (IF pc[r] = "idle" THEN frame'[r].current_session_id
                              ELSE frame[r].current_session_id)]_vars

\* two activations are under way on two sessions that both have a history,
\* and the one that completed has left the other session's fields alone
C20_Witness ==
    /\ pc[1] = "done" /\ result[1].success
    /\ pc[2] = "run"
    /\ frame[1].current_session_id # frame[2].current_session_id
    /\ LET A == sessions[frame[1].current_session_id]
           B == sessions[frame[2].current_session_id]
       IN /\ Len(A.conversation_history) = 1
          /\ B.total_queries = 2
          /\ Len(B.conversation_history) = 1

\* --------------------------------------------------- claims on the pipeline

\* C21: a degraded tool never aborts the pipeline: a tool call that returns
\* an error-status or empty payload leaves the run going and the handler
\* without a result, and a query that ends in failure was ended by the
\* input tripwire, the output tripwire or a failed model call, never by a
\* tool call
C21_ToolDegradationContinues ==
    [][\A r \in Req :
           /\ (pc[r] = "run" /\ run'[r].turn = run[r].turn + 1) =>
                  /\ pc'[r] = "run"
                  /\ result'[r] = result[r]
                  /\ run'[r].raised = "none"
                  /\ run'[r].llm = "ready"
           /\ (pc[r] = "run" /\ pc'[r] = "done" /\ ~result'[r].success) =>
                  \/ /\ run'[r].raised = "InputGuardrailTripwireTriggered"
                     /\ run'[r].in_check.tripwire_triggered
                  \/ /\ run'[r].raised = "OutputGuardrailTripwireTriggered"
                     /\ run'[r].out_check.tripwire_triggered
                  \/ /\ run'[r].raised = "Exception"
                     /\ run'[r].llm = "failed"]_vars

\* the web_search credential is unset, the tool returned its error payload
\* and the query completed with success
C21_Witness ==
    \E r \in Req :
        /\ pc[r] = "done"
        /\ result[r].success
        /\ run[r].degraded
        /\ "web_search" \in run[r].spent
        /\ ToolReturn("web_search", FALSE) = [raised |-> "none", degraded |-> TRUE]

\* C22: while a query that reuses session S is with the synthesis run, the
\* enhanced query given to the run contains the query of the exchange last
\* stored on S and the first 500 characters of its stored response, or all
\* of it when it is shorter, and never its first 501 characters
C22_ContextCarriesOver ==
    \A r \in Req :
        pc[r] = "run" =>
            LET h == sessions[frame[r].current_session_id].conversation_history
                text == run[r].input.value
            IN h # <<>> =>
                   LET last == h[Len(h)]
                   IN /\ IsInfix(last.query, text)
                      /\ IsInfix(Prefix(last.response, 500), text)
                      /\ Len(last.response) <= 500 => IsInfix(last.response, text)
                      /\ Len(last.response) > 500 =>
                             ~IsInfix(SubSeq(last.response, 1, 501), text)

\* the second query on a session is with the run; the first one was another
\* query and its stored response is longer than 500
C22_Witness ==
    \E r \in Req :
        /\ pc[r] = "run"
        /\ call[r].session_id = frame[r].current_session_id
        /\ LET h == sessions[frame[r].current_session_id].conversation_history
           IN /\ Len(h) = 1
              /\ h[1].query # call[r].query
              /\ Len(h[1].response) > 500

SegLen(e) == Len(e.query) + Min(Len(e.response), 500) + 3

RECURSIVE SegStart(_, _)
\* where the rendering of exchange i starts in the context
SegStart(h, i) == IF i = 1 THEN 2 ELSE SegStart(h, i - 1) + SegLen(h[i - 1])

\* C25: get_conversation_context returns the no-prior-context marker exactly
\* when the session is unknown or has no stored exchange; otherwise the
\* context is a heading followed by the stored exchanges, at most 3, from
\* oldest to newest and numbered from 1, each with its whole query and the
\* first 500 characters of its response (all of a shorter one), and nothing
\* else
C25_ContextRendering ==
    [][(last_call'.op = "get_conversation_context" /\ sessions' = sessions) =>
          LET sid == last_call'.session_id
              ret == last_call'.ret
              marker == <<"No previous conversation in this session.">>
              h == IF sid \in DOMAIN sessions
                   THEN sessions[sid].conversation_history ELSE <<>>
          IN /\ ret = marker <=> h = <<>>
             /\ h # <<>> =>
                    /\ Len(h) <= 3
                    /\ ret[1] = "CONVERSATION HISTORY:"
                    /\ Len(ret) = SegStart(h, Len(h)) + SegLen(h[Len(h)]) - 1
                    /\ \A i \in 1..Len(h) :
                           LET at == SegStart(h, i)
                               kept == Min(Len(h[i].response), 500)
                           IN SubSeq(ret, at, at + SegLen(h[i]) - 1) =
                                  <<"PREVIOUS QUERY " \o ToString(i) \o ":">>
                                  \o h[i].query
                                  \o <<"PREVIOUS RESPONSE " \o ToString(i)
                                        \o " (Summary):">>
                                  \o SubSeq(h[i].response, 1, kept)
                                  \o <<"...">>]_vars

\* the builder was called on a session with three exchanges, responses long
\* and short among them, and on a session without any
C25_Witness ==
    /\ last_call.op = "get_conversation_context"
    /\ last_call.known
    /\ last_call.ret = get_conversation_context(sessions, last_call.session_id)
    /\ LET h == sessions[last_call.session_id].conversation_history
       IN /\ Len(h) = 3
          /\ Len(h[1].response) > 500
          /\ Len(h[3].response) <= 500
          /\ Len(last_call.ret) = 1 + (Len(h[1].query) + 503) + SegLen(h[2]) + SegLen(h[3])
    /\ \E s \in DOMAIN sessions :
           /\ sessions[s].conversation_history = <<>>
           /\ Len(get_conversation_context(sessions, s)) = 1

\* C23: when the external calls return, every activation of the handler
\* that has started ends with one result; the result is a success, an
\* input rejection, an output rejection or a system error, it is a returned
\* value (no exception leaves the handler), and it stays as it is until the
\* caller takes it
C23_TerminatesOnce ==
    /\ \A r \in Req : pc[r] = "run" ~> pc[r] = "done"
    /\ [](\A r \in Req :
             pc[r] = "done" =>
                 \/ result[r].success /\ run[r].raised = "none"
                 \/ /\ ~result[r].success
                    /\ run[r].raised # "none"
                    /\ result[r].error_type \in
                           {"input_validation", "output_validation", "system_error"})
    /\ [][\A r \in Req :
              pc[r] = "done" =>
                  \/ pc'[r] = "done" /\ result'[r] = result[r]
                  \/ pc'[r] = "idle"]_vars

\* a query has ended in a system error after a tool call that degraded
C23_Witness ==
    \E r \in Req :
        /\ pc[r] = "done"
        /\ result[r].error_type = "system_error"
        /\ run[r].turn = 2
        /\ run[r].degraded

\* C24: a query completes only after session resolution, input validation,
\* synthesis and output validation, passed in this order: a model call of
\* the synthesis run starts only when the input validation has passed, the
\* output validation runs only on the final output of the synthesis, and
\* the completing step, taken only after the output validation has passed,
\* appends exactly one exchange, the raw query and the formatted transcript,
\* to the session and returns the success result
C24_StagesInOrder ==
    [][\A r \in Req :
           /\ (pc[r] = "run" /\ run[r].llm = "ready" /\ run'[r].llm = "calling") =>
                  /\ frame[r].current_session_id \in DOMAIN sessions
                  /\ run[r].in_check.ran
                  /\ ~run[r].in_check.tripwire_triggered
           /\ (pc[r] = "run" /\ ~run[r].out_check.ran /\ run'[r].out_check.ran) =>
                  /\ run[r].in_check.ran
                  /\ run[r].llm = "final"
           /\ (pc[r] = "run" /\ pc'[r] = "done" /\ result'[r].success) =>
                  LET sid == frame[r].current_session_id
                  IN /\ run[r].out_check.ran
                     /\ ~run[r].out_check.tripwire_triggered
                     /\ Len(appended') = Len(appended) + 1
                     /\ appended'[Len(appended')][1] = sid
                     /\ appended'[Len(appended')][2].query = call[r].query
                     /\ Strip(appended'[Len(appended')][2].response) = result'[r].response]_vars

\* C26: add_to_conversation_history called with an id that is not in the
\* store returns without raising and leaves the store as it was: no
\* session is created and every session record is unchanged
C26_AppendUnknownIsNoOp ==
    [][(last_call'.op = "add_to_conversation_history" /\ ~last_call'.known) =>
           /\ last_call'.session_id \notin DOMAIN sessions
           /\ last_call'.ret = None
           /\ DOMAIN sessions' = DOMAIN sessions
           /\ \A s \in DOMAIN sessions : sessions'[s] = sessions[s]
           /\ appended' = appended]_vars

\* the store holds a session with a history and the last call was an
\* append under an id that no session has
C26_Witness ==
    /\ last_call.op = "add_to_conversation_history"
    /\ ~last_call.known
    /\ last_call.session_id = "typo"
    /\ "typo" \notin DOMAIN sessions
    /\ \E s \in DOMAIN sessions : Len(sessions[s].conversation_history) = 1

\* C27: nothing is tried again. In a web_search call the requests sent are
\* at all times the first elements of the query list, one request each, so
\* a failed request is not sent again, and a call that returns success has
\* sent as many requests as there are queries. In a handler activation a
\* model call starts again only as the next turn after a tool call; a
\* failed model call ends the activation, and an activation that has ended
\* does nothing more until the caller takes its result
C27_NoRetries ==
    [][/\ Len(web'.sent) <= Len(web'.queries)
       /\ \A i \in 1..Len(web'.sent) : web'.sent[i] = web'.queries[i]
       /\ Len(web'.replies) = Len(web'.sent)
       /\ (web'.pc = "done" /\ web'.ret.status = "success") =>
              Len(web'.sent) = Len(web'.queries)
       /\ \A r \in Req :
              /\ (pc[r] = "run" /\ run[r].llm = "calling" /\ run'[r].llm = "ready") =>
                     /\ run'[r].turn = run[r].turn + 1
                     /\ run'[r].spent \cap Tools # {}
              /\ (pc[r] = "run" /\ run[r].llm = "calling" /\ pc'[r] = "run") =>
                     run'[r].turn >= run[r].turn
              /\ run'[r].llm = "failed" => pc'[r] = "done"
              /\ pc[r] = "done" => (run'[r] = run[r] \/ pc'[r] = "idle")]_vars

\* the model call of the first query is waiting for web_search, which got a
\* 429 for its first query and went on to the second, once each
C27_Witness ==
    /\ pc[1] = "run"
    /\ run[1].llm = "calling"
    /\ web.pc = "done"
    /\ web.ret.status = "success"
    /\ web.queries = <<"limits", "series">>
    /\ web.sent = <<"limits", "series">>
    /\ web.replies[1].status_code = 429

\* C28: with one activation at a time, has_context of a success result is
\* true exactly when the session held a stored exchange before this query,
\* which is exactly when the context built for the query was not the
\* no-prior-context marker
C28_HasContextIffPrior ==
    \A r \in Req :
        (pc[r] = "done" /\ result[r].success) =>
            LET sid == frame[r].current_session_id
                before == Len(AppendedTo(sid)) - 1
                marker == <<"No previous conversation in this session.">>
            IN /\ result[r].has_context <=> before >= 1
               /\ result[r].has_context <=> frame[r].conversation_context # marker

\* a second query on a session has completed with has_context, and the
\* session it continued held one exchange
C28_Witness ==
    \E r \in Req :
        /\ pc[r] = "done"
        /\ result[r].success
        /\ result[r].has_context
        /\ call[r].session_id = result[r].session_id
        /\ Len(AppendedTo(result[r].session_id)) = 2

\* C29: the total_queries of a success result, and the Query # of its
\* transcript, are the counter value that the activation's own resolution
\* produced (the Query # of its enhanced query), whatever other activations
\* resolve on the same session while it awaits the synthesis
C29_ResultCarriesOwnCount ==
    \A r \in Req :
        (pc[r] = "done" /\ result[r].success) =>
            /\ "Query #" \o ToString(result[r].total_queries) = frame[r].enhanced_query[4]
            /\ result[r].response[2] = frame[r].enhanced_query[4]

\* C30: no session is ever removed, and sessions are made before validation:
\* a query whose session_id is absent or unknown adds exactly one session at
\* its resolution, with total_queries 1 and no history; a query that is
\* rejected or fails leaves the store as it is, so that session stays; and
\* as long as no query has succeeded (the caller has no id to supply) there
\* is one such session for every query made
C30_SessionsStay ==
    [][/\ DOMAIN sessions \subseteq DOMAIN sessions'
       /\ \A r \in Req :
              /\ (pc[r] = "idle" /\ pc'[r] = "run"
                      /\ ~IsKnown(sessions, call'[r].session_id)) =>
                     LET new == frame'[r].current_session_id
                     IN /\ new \notin DOMAIN sessions
                        /\ DOMAIN sessions' = DOMAIN sessions \cup {new}
                        /\ sessions'[new].total_queries = 1
                        /\ sessions'[new].conversation_history = <<>>
                        /\ \A s \in DOMAIN sessions : sessions'[s] = sessions[s]
              /\ (pc[r] = "run" /\ pc'[r] = "done" /\ ~result'[r].success) =>
                     sessions' = sessions
       /\ issued' = {} =>
              /\ Cardinality(DOMAIN sessions') = now'
              /\ \A s \in DOMAIN sessions' :
                     /\ sessions'[s].total_queries = 1
                     /\ sessions'[s].conversation_history = <<>>]_vars

\* two queries from a fresh chat have both failed, the second by the input
\* tripwire, and two sessions are in the store
C30_Witness ==
    /\ issued = {}
    /\ now = 2
    /\ Cardinality(DOMAIN sessions) = 2
    /\ pc[1] = "done"
    /\ call[1].session_id = None
    /\ result[1].error_type = "input_validation"
    /\ result[1].session_id = None

====
